---------------------------- MODULE Spec2Model ----------------------------
(***************************************************************************)
(* iron-hmac: HMAC-SHA256 request authentication (BeforeMiddleware) and    *)
(* response signing (AfterMiddleware) for the Iron web framework.          *)
(*                                                                         *)
(* Byte strings are sequences of naturals in 0..255.  A Rust String or     *)
(* &str is the sequence of its UTF-8 bytes.                                *)
(***************************************************************************)
EXTENDS Naturals, Sequences, FiniteSets, TLC

(***************************************************************************)
(* Bounds of the model.                                                    *)
(***************************************************************************)
\* Number of requests one server instance receives in a behaviour.
MaxRequests == 2

(***************************************************************************)
(* Program constants.                                                      *)
(***************************************************************************)
\* struct Hmac256([u8; 32])
HmacLen == 32
\* if s.len() != 64
HexHmacLen == 64

(***************************************************************************)
(* Byte-string literals of the modelled inputs.                            *)
(***************************************************************************)
\* "rust :)", the secret of tests/lib.rs and the example
SecretRust == <<114, 117, 115, 116, 32, 58, 41>>
\* "k2"
SecretK2 == <<107, 50>>
Secrets == {SecretRust, SecretK2}

\* "GET", "POST": iron::method::Method::as_ref()
MethodGet == <<71, 69, 84>>
MethodPost == <<80, 79, 83, 84>>
Methods == {MethodGet, MethodPost}

\* req.url.path is a Vec<String> of path segments: [""] is "/", ["a","b"] is "/a/b"
PathRoot == << <<>> >>
PathAB == << <<97>>, <<98>> >>
UrlPaths == {PathRoot, PathAB}

\* "hi"
BodyHi == <<104, 105>>
\* "Hello, world!", the handler's reply in tests/lib.rs
HelloWorld == <<72, 101, 108, 108, 111, 44, 32, 119, 111, 114, 108, 100, 33>>
\* "ok"
BodyOk == <<111, 107>>

\* Names of headers (hyper header names; the configured key is one of them).
HeaderKeys == {"x-hmac", "x-sig"}

(***************************************************************************)
(* Sequence helpers.                                                       *)
(***************************************************************************)
RECURSIVE Flatten(_)
Flatten(chunks) ==
  IF chunks = <<>> THEN <<>> ELSE Head(chunks) \o Flatten(Tail(chunks))

(***************************************************************************)
(* SecretKey (lib.rs:33-59): a newtype over the key bytes.                 *)
(***************************************************************************)
SecretKey_new(s) == s

(***************************************************************************)
(* SHA-256 (FIPS 180-4), the hash openssl runs under Type::SHA256.  A      *)
(* 32-bit word is a pair <<hi, lo>> of its two 16-bit halves.  The         *)
(* operations are functions, so that an argument is a value when the       *)
(* operation starts.                                                       *)
(***************************************************************************)
U16 == 0..65535
Word == U16 \X U16
Octets == Seq(0..255)

\* bitwise x XOR y XOR z of naturals
XorBits[x \in Nat, y \in Nat, z \in Nat] ==
  IF x + y + z = 0 THEN 0
  ELSE ((x + y + z) % 2) + 2 * XorBits[x \div 2, y \div 2, z \div 2]

\* bitwise (x AND y) XOR (NOT x AND z): bit of y where x has 1, of z elsewhere
ChBits[x \in Nat, y \in Nat, z \in Nat] ==
  IF x + y + z = 0 THEN 0
  ELSE (IF x % 2 = 1 THEN y % 2 ELSE z % 2) + 2 * ChBits[x \div 2, y \div 2, z \div 2]

\* bitwise (x AND y) XOR (x AND z) XOR (y AND z): the majority of the bits
MajBits[x \in Nat, y \in Nat, z \in Nat] ==
  IF x + y + z = 0 THEN 0
  ELSE (((x % 2) + (y % 2) + (z % 2)) \div 2) + 2 * MajBits[x \div 2, y \div 2, z \div 2]

Xor3 == [x \in Word, y \in Word, z \in Word |-> [h \in 1..2 |-> XorBits[x[h], y[h], z[h]]]]
Ch == [x \in Word, y \in Word, z \in Word |-> [h \in 1..2 |-> ChBits[x[h], y[h], z[h]]]]
Maj == [x \in Word, y \in Word, z \in Word |-> [h \in 1..2 |-> MajBits[x[h], y[h], z[h]]]]

\* w shifted right by m < 16 bits, p = 2^m and q = 2^(16-m); the bits
\* shifted out come back on the left when rot
ShiftHalves ==
  [w \in Word, p \in Nat, q \in Nat, rot \in BOOLEAN |->
     << (w[1] \div p) + (IF rot THEN (w[2] % p) * q ELSE 0),
        (w[2] \div p) + (w[1] % p) * q >>]

\* rotate right by n bits
RotR ==
  [x \in Word, n \in 1..31 |->
     ShiftHalves[IF n >= 16 THEN <<x[2], x[1]>> ELSE x,
                 2 ^ (n % 16), 2 ^ (16 - (n % 16)), TRUE]]

\* shift right by n bits
ShR == [x \in Word, n \in 1..15 |-> ShiftHalves[x, 2 ^ n, 2 ^ (16 - n), FALSE]]

BigSigma0 == [x \in Word |-> Xor3[RotR[x, 2], RotR[x, 13], RotR[x, 22]]]
BigSigma1 == [x \in Word |-> Xor3[RotR[x, 6], RotR[x, 11], RotR[x, 25]]]
SmallSigma0 == [x \in Word |-> Xor3[RotR[x, 7], RotR[x, 18], ShR[x, 3]]]
SmallSigma1 == [x \in Word |-> Xor3[RotR[x, 17], RotR[x, 19], ShR[x, 10]]]

\* addition modulo 2^32
Add32 ==
  [x \in Word, y \in Word |->
     << (x[1] + y[1] + (x[2] + y[2]) \div 65536) % 65536, (x[2] + y[2]) % 65536 >>]

\* the round constants K[0..63], here K256[1..64]
K256 ==
  <<
    <<17034, 12184>>, <<28983, 17553>>, <<46528, 64463>>, <<59829, 56229>>,
    <<14678, 49755>>, <<23025, 4593>>, <<37439, 33444>>, <<43804, 24277>>,
    <<55303, 43672>>, <<4739, 23297>>, <<9265, 34238>>, <<21772, 32195>>,
    <<29374, 23924>>, <<32990, 45566>>, <<39900, 1703>>, <<49563, 61812>>,
    <<58523, 27073>>, <<61374, 18310>>, <<4033, 40390>>, <<9228, 41420>>,
    <<11753, 11375>>, <<19060, 33962>>, <<23728, 43484>>, <<30457, 35034>>,
    <<38974, 20818>>, <<43057, 50797>>, <<45059, 10184>>, <<48985, 32711>>,
    <<50912, 3059>>, <<54695, 37191>>, <<1738, 25425>>, <<5161, 10599>>,
    <<10167, 2693>>, <<11803, 8504>>, <<19756, 28156>>, <<21304, 3347>>,
    <<25866, 29524>>, <<30314, 2747>>, <<33218, 51502>>, <<37490, 11397>>,
    <<41663, 59553>>, <<43034, 26187>>, <<49739, 35696>>, <<51052, 20899>>,
    <<53650, 59417>>, <<54937, 1572>>, <<62478, 13701>>, <<4202, 41072>>,
    <<6564, 49430>>, <<7735, 27656>>, <<10056, 30540>>, <<13488, 48309>>,
    <<14620, 3251>>, <<20184, 43594>>, <<23452, 51791>>, <<26670, 28659>>,
    <<29839, 33518>>, <<30885, 25455>>, <<33992, 30740>>, <<36039, 520>>,
    <<37054, 65530>>, <<42064, 27883>>, <<48889, 41975>>, <<50801, 30962>>
  >>

\* the initial hash value H(0)
InitialHash ==
  <<
    <<27145, 58983>>, <<47975, 44677>>, <<15470, 62322>>, <<42319, 62778>>,
    <<20750, 21119>>, <<39685, 26764>>, <<8067, 55723>>, <<23520, 52505>>
  >>

\* the message with the padding: 0x80, zeros, and the length in bits as a
\* 64-bit big-endian number (messages here are shorter than 2^28 bytes)
Sha256Pad ==
  [m \in Octets |->
     [i \in 1..(((Len(m) + 8) \div 64 + 1) * 64) |->
        IF i <= Len(m) THEN m[i]
        ELSE IF i = Len(m) + 1 THEN 128
        ELSE IF i <= ((Len(m) + 8) \div 64 + 1) * 64 - 4 THEN 0
        ELSE ((8 * Len(m)) \div (256 ^ (((Len(m) + 8) \div 64 + 1) * 64 - i))) % 256]]

\* W[t] for t >= 16 from the words before it (w holds W[0..t-1], t = n - 1)
NextScheduleWord ==
  [w \in Seq(Word), n \in Nat |->
     Add32[Add32[SmallSigma1[w[n - 2]], w[n - 7]],
           Add32[SmallSigma0[w[n - 15]], w[n - 16]]]]

\* the message schedule W[0..63], here w[1..64], from W[0..15]
Schedule[w \in Seq(Word)] ==
  IF Len(w) = 64 THEN w ELSE Schedule[Append(w, NextScheduleWord[w, Len(w) + 1])]

\* W[0..15]: the block of 64 bytes as 16 big-endian words
BlockWords ==
  [block \in Octets |->
     [j \in 1..16 |-> << block[4 * j - 3] * 256 + block[4 * j - 2],
                         block[4 * j - 1] * 256 + block[4 * j] >>]]

\* the working variables a..h (v[1..8]) after a round with its T1 and T2
RoundResult ==
  [v \in Seq(Word), T1 \in Word, T2 \in Word |->
     [i \in 1..8 |-> IF i \in {1, 5}
                     THEN Add32[IF i = 1 THEN T2 ELSE v[4], T1]
                     ELSE v[i - 1]]]

\* one round on the working variables with kw = K[t] + W[t]
Round ==
  [v \in Seq(Word), kw \in Word |->
     RoundResult[v,
                 Add32[Add32[Add32[v[8], BigSigma1[v[5]]], Ch[v[5], v[6], v[7]]], kw],
                 Add32[BigSigma0[v[1]], Maj[v[1], v[2], v[3]]]]]

\* the rounds t+1..64 on the working variables v with the schedule w
Rounds[t \in 0..64, v \in Seq(Word), w \in Seq(Word)] ==
  IF t = 64 THEN v
  ELSE Rounds[t + 1, Round[v, Add32[K256[t + 1], w[t + 1]]], w]

\* the hash value h plus the working variables v, word by word
AddHash ==
  [h \in Seq(Word), v \in Seq(Word) |-> [i \in 1..8 |-> Add32[h[i], v[i]]]]

\* one block: the hash value after it
Compress ==
  [h \in Seq(Word), block \in Octets |->
     AddHash[h, Rounds[0, h, Schedule[BlockWords[block]]]]]

\* the hash value after the blocks k+1, k+2, ... of the padded message p
Blocks[h \in Seq(Word), p \in Octets, k \in Nat] ==
  IF 64 * k >= Len(p) THEN h
  ELSE Blocks[Compress[h, SubSeq(p, 64 * k + 1, 64 * k + 64)], p, k + 1]

\* the hash value as 32 bytes, each word big-endian
HashBytes ==
  [h \in Seq(Word) |->
     [i \in 1..32 |->
        (h[(i + 3) \div 4][IF (i - 1) % 4 < 2 THEN 1 ELSE 2]
           \div (IF i % 2 = 1 THEN 256 ELSE 1)) % 256]]

\* the 32 bytes of the digest of the message m
Sha256 == [m \in Octets |-> HashBytes[Blocks[InitialHash, Sha256Pad[m], 0]]]

(***************************************************************************)
(* HMAC (RFC 2104) over SHA-256, block size 64: a key longer than a block  *)
(* is replaced by its hash; the key, padded with zeros to the block and    *)
(* XORed with the pad byte, goes before the message.                       *)
(***************************************************************************)
HmacPad ==
  [key \in Octets, pad \in 0..255 |->
     [i \in 1..64 |-> XorBits[IF i <= Len(key) THEN key[i] ELSE 0, pad, 0]]]

HmacSha256Compute[key \in Octets, data \in Octets] ==
  IF Len(key) > 64 THEN HmacSha256Compute[Sha256[key], data]
  ELSE Sha256[HmacPad[key, 92] \o Sha256[HmacPad[key, 54] \o data]]

(***************************************************************************)
(* The digests of the inputs the model draws, as HmacSha256Compute yields  *)
(* them, tabulated so that a state does not run the 64 rounds again.       *)
(***************************************************************************)
HmacSha256Table ==
  <<
    \* HMAC('rust :)', 'GET') = b1d56c98b74d0da82f1105beee559de64480d7632177a28a4a1331a7d0517362
    [key |-> <<114, 117, 115, 116, 32, 58, 41>>,
     data |-> <<71, 69, 84>>,
     digest |-> <<177, 213, 108, 152, 183, 77, 13, 168, 47, 17, 5, 190, 238, 85, 157, 230, 68, 128, 215, 99, 33, 119, 162, 138, 74, 19, 49, 167, 208, 81, 115, 98>>],
    \* HMAC('rust :)', 'POST') = 21d4fa9cce3dc6d91bc1c222bd0b1909cebd52e6ad1fa46cb4266286cba90766
    [key |-> <<114, 117, 115, 116, 32, 58, 41>>,
     data |-> <<80, 79, 83, 84>>,
     digest |-> <<33, 212, 250, 156, 206, 61, 198, 217, 27, 193, 194, 34, 189, 11, 25, 9, 206, 189, 82, 230, 173, 31, 164, 108, 180, 38, 98, 134, 203, 169, 7, 102>>],
    \* HMAC('rust :)', '/') = c88a8935a07a917caafe0d64890e8ded4f3f87d11a0ad7cf622c8aabc4b71a91
    [key |-> <<114, 117, 115, 116, 32, 58, 41>>,
     data |-> <<47>>,
     digest |-> <<200, 138, 137, 53, 160, 122, 145, 124, 170, 254, 13, 100, 137, 14, 141, 237, 79, 63, 135, 209, 26, 10, 215, 207, 98, 44, 138, 171, 196, 183, 26, 145>>],
    \* HMAC('rust :)', '/a/b') = 604d8d1ce456591a797b5f9f9b74c7edd67709841841b31f1ffb819de88c3d8a
    [key |-> <<114, 117, 115, 116, 32, 58, 41>>,
     data |-> <<47, 97, 47, 98>>,
     digest |-> <<96, 77, 141, 28, 228, 86, 89, 26, 121, 123, 95, 159, 155, 116, 199, 237, 214, 119, 9, 132, 24, 65, 179, 31, 31, 251, 129, 157, 232, 140, 61, 138>>],
    \* HMAC('rust :)', '') = a6fb251d395eeee79f84f6970b5f14d5c97a799f50ae174fa045149b5d4d9049
    [key |-> <<114, 117, 115, 116, 32, 58, 41>>,
     data |-> <<>>,
     digest |-> <<166, 251, 37, 29, 57, 94, 238, 231, 159, 132, 246, 151, 11, 95, 20, 213, 201, 122, 121, 159, 80, 174, 23, 79, 160, 69, 20, 155, 93, 77, 144, 73>>],
    \* HMAC('rust :)', 'hi') = 3c88b2bcde0025311a3e2db3de501f68979d7ba1b069b95f8669b07044747000
    [key |-> <<114, 117, 115, 116, 32, 58, 41>>,
     data |-> <<104, 105>>,
     digest |-> <<60, 136, 178, 188, 222, 0, 37, 49, 26, 62, 45, 179, 222, 80, 31, 104, 151, 157, 123, 161, 176, 105, 185, 95, 134, 105, 176, 112, 68, 116, 112, 0>>],
    \* HMAC('rust :)', 'Hello, world!') = ccc7dfe24de0375cc49067576b69ba4d68be554c9f86fb3dadfc053ce84f71a0
    [key |-> <<114, 117, 115, 116, 32, 58, 41>>,
     data |-> <<72, 101, 108, 108, 111, 44, 32, 119, 111, 114, 108, 100, 33>>,
     digest |-> <<204, 199, 223, 226, 77, 224, 55, 92, 196, 144, 103, 87, 107, 105, 186, 77, 104, 190, 85, 76, 159, 134, 251, 61, 173, 252, 5, 60, 232, 79, 113, 160>>],
    \* HMAC('rust :)', 'ok') = ea84d5d1cb52dfe6993db97138b4a3d7575cdb396f429a09b4df2709250ca622
    [key |-> <<114, 117, 115, 116, 32, 58, 41>>,
     data |-> <<111, 107>>,
     digest |-> <<234, 132, 213, 209, 203, 82, 223, 230, 153, 61, 185, 113, 56, 180, 163, 215, 87, 92, 219, 57, 111, 66, 154, 9, 180, 223, 39, 9, 37, 12, 166, 34>>],
    \* HMAC('rust :)', HMAC(GET) ++ HMAC(/) ++ HMAC('')) = fa64feb94f1d649d435ae6dce009ff0767f57c0f20867dde5f8f6712fea3a7be
    [key |-> <<114, 117, 115, 116, 32, 58, 41>>,
     data |-> <<177, 213, 108, 152, 183, 77, 13, 168, 47, 17, 5, 190, 238, 85, 157, 230, 68, 128, 215, 99, 33, 119, 162, 138, 74, 19, 49, 167, 208, 81, 115, 98, 200, 138, 137, 53, 160, 122, 145, 124, 170, 254, 13, 100, 137, 14, 141, 237, 79, 63, 135, 209, 26, 10, 215, 207, 98, 44, 138, 171, 196, 183, 26, 145, 166, 251, 37, 29, 57, 94, 238, 231, 159, 132, 246, 151, 11, 95, 20, 213, 201, 122, 121, 159, 80, 174, 23, 79, 160, 69, 20, 155, 93, 77, 144, 73>>,
     digest |-> <<250, 100, 254, 185, 79, 29, 100, 157, 67, 90, 230, 220, 224, 9, 255, 7, 103, 245, 124, 15, 32, 134, 125, 222, 95, 143, 103, 18, 254, 163, 167, 190>>],
    \* HMAC('rust :)', HMAC(GET) ++ HMAC(/) ++ HMAC('hi')) = 1945f6299ec4fdc9eed8f08a704dbf5aafc44e6845d07682ffe8715068b1f216
    [key |-> <<114, 117, 115, 116, 32, 58, 41>>,
     data |-> <<177, 213, 108, 152, 183, 77, 13, 168, 47, 17, 5, 190, 238, 85, 157, 230, 68, 128, 215, 99, 33, 119, 162, 138, 74, 19, 49, 167, 208, 81, 115, 98, 200, 138, 137, 53, 160, 122, 145, 124, 170, 254, 13, 100, 137, 14, 141, 237, 79, 63, 135, 209, 26, 10, 215, 207, 98, 44, 138, 171, 196, 183, 26, 145, 60, 136, 178, 188, 222, 0, 37, 49, 26, 62, 45, 179, 222, 80, 31, 104, 151, 157, 123, 161, 176, 105, 185, 95, 134, 105, 176, 112, 68, 116, 112, 0>>,
     digest |-> <<25, 69, 246, 41, 158, 196, 253, 201, 238, 216, 240, 138, 112, 77, 191, 90, 175, 196, 78, 104, 69, 208, 118, 130, 255, 232, 113, 80, 104, 177, 242, 22>>],
    \* HMAC('rust :)', HMAC(GET) ++ HMAC(/a/b) ++ HMAC('')) = 3ba076ecaa42c8d377c22f6d72bbd9d6e73ba99d475cefa61083d69dcee2fe42
    [key |-> <<114, 117, 115, 116, 32, 58, 41>>,
     data |-> <<177, 213, 108, 152, 183, 77, 13, 168, 47, 17, 5, 190, 238, 85, 157, 230, 68, 128, 215, 99, 33, 119, 162, 138, 74, 19, 49, 167, 208, 81, 115, 98, 96, 77, 141, 28, 228, 86, 89, 26, 121, 123, 95, 159, 155, 116, 199, 237, 214, 119, 9, 132, 24, 65, 179, 31, 31, 251, 129, 157, 232, 140, 61, 138, 166, 251, 37, 29, 57, 94, 238, 231, 159, 132, 246, 151, 11, 95, 20, 213, 201, 122, 121, 159, 80, 174, 23, 79, 160, 69, 20, 155, 93, 77, 144, 73>>,
     digest |-> <<59, 160, 118, 236, 170, 66, 200, 211, 119, 194, 47, 109, 114, 187, 217, 214, 231, 59, 169, 157, 71, 92, 239, 166, 16, 131, 214, 157, 206, 226, 254, 66>>],
    \* HMAC('rust :)', HMAC(GET) ++ HMAC(/a/b) ++ HMAC('hi')) = f9ae078eafd5decffa2c43bc7f905e0fda467bca25b224097d8731f93cfd97f7
    [key |-> <<114, 117, 115, 116, 32, 58, 41>>,
     data |-> <<177, 213, 108, 152, 183, 77, 13, 168, 47, 17, 5, 190, 238, 85, 157, 230, 68, 128, 215, 99, 33, 119, 162, 138, 74, 19, 49, 167, 208, 81, 115, 98, 96, 77, 141, 28, 228, 86, 89, 26, 121, 123, 95, 159, 155, 116, 199, 237, 214, 119, 9, 132, 24, 65, 179, 31, 31, 251, 129, 157, 232, 140, 61, 138, 60, 136, 178, 188, 222, 0, 37, 49, 26, 62, 45, 179, 222, 80, 31, 104, 151, 157, 123, 161, 176, 105, 185, 95, 134, 105, 176, 112, 68, 116, 112, 0>>,
     digest |-> <<249, 174, 7, 142, 175, 213, 222, 207, 250, 44, 67, 188, 127, 144, 94, 15, 218, 70, 123, 202, 37, 178, 36, 9, 125, 135, 49, 249, 60, 253, 151, 247>>],
    \* HMAC('rust :)', HMAC(POST) ++ HMAC(/) ++ HMAC('')) = 37f51397c533e8b52dac1c10624c083d95da58f594b4e7e6a944b3fc4091ed8d
    [key |-> <<114, 117, 115, 116, 32, 58, 41>>,
     data |-> <<33, 212, 250, 156, 206, 61, 198, 217, 27, 193, 194, 34, 189, 11, 25, 9, 206, 189, 82, 230, 173, 31, 164, 108, 180, 38, 98, 134, 203, 169, 7, 102, 200, 138, 137, 53, 160, 122, 145, 124, 170, 254, 13, 100, 137, 14, 141, 237, 79, 63, 135, 209, 26, 10, 215, 207, 98, 44, 138, 171, 196, 183, 26, 145, 166, 251, 37, 29, 57, 94, 238, 231, 159, 132, 246, 151, 11, 95, 20, 213, 201, 122, 121, 159, 80, 174, 23, 79, 160, 69, 20, 155, 93, 77, 144, 73>>,
     digest |-> <<55, 245, 19, 151, 197, 51, 232, 181, 45, 172, 28, 16, 98, 76, 8, 61, 149, 218, 88, 245, 148, 180, 231, 230, 169, 68, 179, 252, 64, 145, 237, 141>>],
    \* HMAC('rust :)', HMAC(POST) ++ HMAC(/) ++ HMAC('hi')) = ec085eba162fb5241da0d5c2f0a692d322032b7960d47b18035ac4ebd0018255
    [key |-> <<114, 117, 115, 116, 32, 58, 41>>,
     data |-> <<33, 212, 250, 156, 206, 61, 198, 217, 27, 193, 194, 34, 189, 11, 25, 9, 206, 189, 82, 230, 173, 31, 164, 108, 180, 38, 98, 134, 203, 169, 7, 102, 200, 138, 137, 53, 160, 122, 145, 124, 170, 254, 13, 100, 137, 14, 141, 237, 79, 63, 135, 209, 26, 10, 215, 207, 98, 44, 138, 171, 196, 183, 26, 145, 60, 136, 178, 188, 222, 0, 37, 49, 26, 62, 45, 179, 222, 80, 31, 104, 151, 157, 123, 161, 176, 105, 185, 95, 134, 105, 176, 112, 68, 116, 112, 0>>,
     digest |-> <<236, 8, 94, 186, 22, 47, 181, 36, 29, 160, 213, 194, 240, 166, 146, 211, 34, 3, 43, 121, 96, 212, 123, 24, 3, 90, 196, 235, 208, 1, 130, 85>>],
    \* HMAC('rust :)', HMAC(POST) ++ HMAC(/a/b) ++ HMAC('')) = 13c3d6fb6507efe04e8afa7e4e1325d5c5f0c50f5c128a1b3d9e06c0428d07f5
    [key |-> <<114, 117, 115, 116, 32, 58, 41>>,
     data |-> <<33, 212, 250, 156, 206, 61, 198, 217, 27, 193, 194, 34, 189, 11, 25, 9, 206, 189, 82, 230, 173, 31, 164, 108, 180, 38, 98, 134, 203, 169, 7, 102, 96, 77, 141, 28, 228, 86, 89, 26, 121, 123, 95, 159, 155, 116, 199, 237, 214, 119, 9, 132, 24, 65, 179, 31, 31, 251, 129, 157, 232, 140, 61, 138, 166, 251, 37, 29, 57, 94, 238, 231, 159, 132, 246, 151, 11, 95, 20, 213, 201, 122, 121, 159, 80, 174, 23, 79, 160, 69, 20, 155, 93, 77, 144, 73>>,
     digest |-> <<19, 195, 214, 251, 101, 7, 239, 224, 78, 138, 250, 126, 78, 19, 37, 213, 197, 240, 197, 15, 92, 18, 138, 27, 61, 158, 6, 192, 66, 141, 7, 245>>],
    \* HMAC('rust :)', HMAC(POST) ++ HMAC(/a/b) ++ HMAC('hi')) = 7baad5f6d5d8f0feab0b9efb68fb9dc0f5e1fa257d3be0f957029e35d8062c96
    [key |-> <<114, 117, 115, 116, 32, 58, 41>>,
     data |-> <<33, 212, 250, 156, 206, 61, 198, 217, 27, 193, 194, 34, 189, 11, 25, 9, 206, 189, 82, 230, 173, 31, 164, 108, 180, 38, 98, 134, 203, 169, 7, 102, 96, 77, 141, 28, 228, 86, 89, 26, 121, 123, 95, 159, 155, 116, 199, 237, 214, 119, 9, 132, 24, 65, 179, 31, 31, 251, 129, 157, 232, 140, 61, 138, 60, 136, 178, 188, 222, 0, 37, 49, 26, 62, 45, 179, 222, 80, 31, 104, 151, 157, 123, 161, 176, 105, 185, 95, 134, 105, 176, 112, 68, 116, 112, 0>>,
     digest |-> <<123, 170, 213, 246, 213, 216, 240, 254, 171, 11, 158, 251, 104, 251, 157, 192, 245, 225, 250, 37, 125, 59, 224, 249, 87, 2, 158, 53, 216, 6, 44, 150>>],
    \* HMAC('k2', 'GET') = 2c0bbcd652408915e3e7328ef35107150f410c4323b3aef8cf7dd6d7b723b4ac
    [key |-> <<107, 50>>,
     data |-> <<71, 69, 84>>,
     digest |-> <<44, 11, 188, 214, 82, 64, 137, 21, 227, 231, 50, 142, 243, 81, 7, 21, 15, 65, 12, 67, 35, 179, 174, 248, 207, 125, 214, 215, 183, 35, 180, 172>>],
    \* HMAC('k2', 'POST') = 5793fb98548856c259628f3e81a108828c7dcef0b57dec292cbc73ca4a895fe8
    [key |-> <<107, 50>>,
     data |-> <<80, 79, 83, 84>>,
     digest |-> <<87, 147, 251, 152, 84, 136, 86, 194, 89, 98, 143, 62, 129, 161, 8, 130, 140, 125, 206, 240, 181, 125, 236, 41, 44, 188, 115, 202, 74, 137, 95, 232>>],
    \* HMAC('k2', '/') = 6dde596da974481706bbb024f2d5c4645534ed041ca9b89bf757b643970b13e0
    [key |-> <<107, 50>>,
     data |-> <<47>>,
     digest |-> <<109, 222, 89, 109, 169, 116, 72, 23, 6, 187, 176, 36, 242, 213, 196, 100, 85, 52, 237, 4, 28, 169, 184, 155, 247, 87, 182, 67, 151, 11, 19, 224>>],
    \* HMAC('k2', '/a/b') = eea160914c175250ba4974dff2149b41a6084516a21960ceac56f7012d8f47ec
    [key |-> <<107, 50>>,
     data |-> <<47, 97, 47, 98>>,
     digest |-> <<238, 161, 96, 145, 76, 23, 82, 80, 186, 73, 116, 223, 242, 20, 155, 65, 166, 8, 69, 22, 162, 25, 96, 206, 172, 86, 247, 1, 45, 143, 71, 236>>],
    \* HMAC('k2', '') = 158d080636db28c36adb2abc69943ab091eb5a24e1426a6120daf9709d8ad17d
    [key |-> <<107, 50>>,
     data |-> <<>>,
     digest |-> <<21, 141, 8, 6, 54, 219, 40, 195, 106, 219, 42, 188, 105, 148, 58, 176, 145, 235, 90, 36, 225, 66, 106, 97, 32, 218, 249, 112, 157, 138, 209, 125>>],
    \* HMAC('k2', 'hi') = 588cf6903493763798e811c13b9848b917251290ec79cbfb05dd7f8e20f4631c
    [key |-> <<107, 50>>,
     data |-> <<104, 105>>,
     digest |-> <<88, 140, 246, 144, 52, 147, 118, 55, 152, 232, 17, 193, 59, 152, 72, 185, 23, 37, 18, 144, 236, 121, 203, 251, 5, 221, 127, 142, 32, 244, 99, 28>>],
    \* HMAC('k2', 'Hello, world!') = b2fd734836c1e8100984bb2221e3a3a6d5fc039ad88f3132593bc38ac30e8c8d
    [key |-> <<107, 50>>,
     data |-> <<72, 101, 108, 108, 111, 44, 32, 119, 111, 114, 108, 100, 33>>,
     digest |-> <<178, 253, 115, 72, 54, 193, 232, 16, 9, 132, 187, 34, 33, 227, 163, 166, 213, 252, 3, 154, 216, 143, 49, 50, 89, 59, 195, 138, 195, 14, 140, 141>>],
    \* HMAC('k2', 'ok') = 2ce93aed042803591f155c9e98b8933f29e03787b09933b9d9814dcfc0ca31c5
    [key |-> <<107, 50>>,
     data |-> <<111, 107>>,
     digest |-> <<44, 233, 58, 237, 4, 40, 3, 89, 31, 21, 92, 158, 152, 184, 147, 63, 41, 224, 55, 135, 176, 153, 51, 185, 217, 129, 77, 207, 192, 202, 49, 197>>],
    \* HMAC('k2', HMAC(GET) ++ HMAC(/) ++ HMAC('')) = ab5b39853f7def5436d29a7368a7ddcd131bebe7c7ff3ed6f1a75d3c012c9551
    [key |-> <<107, 50>>,
     data |-> <<44, 11, 188, 214, 82, 64, 137, 21, 227, 231, 50, 142, 243, 81, 7, 21, 15, 65, 12, 67, 35, 179, 174, 248, 207, 125, 214, 215, 183, 35, 180, 172, 109, 222, 89, 109, 169, 116, 72, 23, 6, 187, 176, 36, 242, 213, 196, 100, 85, 52, 237, 4, 28, 169, 184, 155, 247, 87, 182, 67, 151, 11, 19, 224, 21, 141, 8, 6, 54, 219, 40, 195, 106, 219, 42, 188, 105, 148, 58, 176, 145, 235, 90, 36, 225, 66, 106, 97, 32, 218, 249, 112, 157, 138, 209, 125>>,
     digest |-> <<171, 91, 57, 133, 63, 125, 239, 84, 54, 210, 154, 115, 104, 167, 221, 205, 19, 27, 235, 231, 199, 255, 62, 214, 241, 167, 93, 60, 1, 44, 149, 81>>],
    \* HMAC('k2', HMAC(GET) ++ HMAC(/) ++ HMAC('hi')) = f339c3fd8f8089040926157edc39b85371b4992115afe8dec0c55a40eab6319a
    [key |-> <<107, 50>>,
     data |-> <<44, 11, 188, 214, 82, 64, 137, 21, 227, 231, 50, 142, 243, 81, 7, 21, 15, 65, 12, 67, 35, 179, 174, 248, 207, 125, 214, 215, 183, 35, 180, 172, 109, 222, 89, 109, 169, 116, 72, 23, 6, 187, 176, 36, 242, 213, 196, 100, 85, 52, 237, 4, 28, 169, 184, 155, 247, 87, 182, 67, 151, 11, 19, 224, 88, 140, 246, 144, 52, 147, 118, 55, 152, 232, 17, 193, 59, 152, 72, 185, 23, 37, 18, 144, 236, 121, 203, 251, 5, 221, 127, 142, 32, 244, 99, 28>>,
     digest |-> <<243, 57, 195, 253, 143, 128, 137, 4, 9, 38, 21, 126, 220, 57, 184, 83, 113, 180, 153, 33, 21, 175, 232, 222, 192, 197, 90, 64, 234, 182, 49, 154>>],
    \* HMAC('k2', HMAC(GET) ++ HMAC(/a/b) ++ HMAC('')) = c68ab3e8df554d0a99bdda9439f0168addb3fbb6dc27c4994bac28cd86c19355
    [key |-> <<107, 50>>,
     data |-> <<44, 11, 188, 214, 82, 64, 137, 21, 227, 231, 50, 142, 243, 81, 7, 21, 15, 65, 12, 67, 35, 179, 174, 248, 207, 125, 214, 215, 183, 35, 180, 172, 238, 161, 96, 145, 76, 23, 82, 80, 186, 73, 116, 223, 242, 20, 155, 65, 166, 8, 69, 22, 162, 25, 96, 206, 172, 86, 247, 1, 45, 143, 71, 236, 21, 141, 8, 6, 54, 219, 40, 195, 106, 219, 42, 188, 105, 148, 58, 176, 145, 235, 90, 36, 225, 66, 106, 97, 32, 218, 249, 112, 157, 138, 209, 125>>,
     digest |-> <<198, 138, 179, 232, 223, 85, 77, 10, 153, 189, 218, 148, 57, 240, 22, 138, 221, 179, 251, 182, 220, 39, 196, 153, 75, 172, 40, 205, 134, 193, 147, 85>>],
    \* HMAC('k2', HMAC(GET) ++ HMAC(/a/b) ++ HMAC('hi')) = c5ee2dd7a1fc47e0001686135d6c43b016ab03d581a507c489f5d96a01b767e9
    [key |-> <<107, 50>>,
     data |-> <<44, 11, 188, 214, 82, 64, 137, 21, 227, 231, 50, 142, 243, 81, 7, 21, 15, 65, 12, 67, 35, 179, 174, 248, 207, 125, 214, 215, 183, 35, 180, 172, 238, 161, 96, 145, 76, 23, 82, 80, 186, 73, 116, 223, 242, 20, 155, 65, 166, 8, 69, 22, 162, 25, 96, 206, 172, 86, 247, 1, 45, 143, 71, 236, 88, 140, 246, 144, 52, 147, 118, 55, 152, 232, 17, 193, 59, 152, 72, 185, 23, 37, 18, 144, 236, 121, 203, 251, 5, 221, 127, 142, 32, 244, 99, 28>>,
     digest |-> <<197, 238, 45, 215, 161, 252, 71, 224, 0, 22, 134, 19, 93, 108, 67, 176, 22, 171, 3, 213, 129, 165, 7, 196, 137, 245, 217, 106, 1, 183, 103, 233>>],
    \* HMAC('k2', HMAC(POST) ++ HMAC(/) ++ HMAC('')) = fef604f6b1b57c1d63b0057e032dfb840dd96adecb45fdf634f676576460b970
    [key |-> <<107, 50>>,
     data |-> <<87, 147, 251, 152, 84, 136, 86, 194, 89, 98, 143, 62, 129, 161, 8, 130, 140, 125, 206, 240, 181, 125, 236, 41, 44, 188, 115, 202, 74, 137, 95, 232, 109, 222, 89, 109, 169, 116, 72, 23, 6, 187, 176, 36, 242, 213, 196, 100, 85, 52, 237, 4, 28, 169, 184, 155, 247, 87, 182, 67, 151, 11, 19, 224, 21, 141, 8, 6, 54, 219, 40, 195, 106, 219, 42, 188, 105, 148, 58, 176, 145, 235, 90, 36, 225, 66, 106, 97, 32, 218, 249, 112, 157, 138, 209, 125>>,
     digest |-> <<254, 246, 4, 246, 177, 181, 124, 29, 99, 176, 5, 126, 3, 45, 251, 132, 13, 217, 106, 222, 203, 69, 253, 246, 52, 246, 118, 87, 100, 96, 185, 112>>],
    \* HMAC('k2', HMAC(POST) ++ HMAC(/) ++ HMAC('hi')) = 81778134dd2d61608b8252115bbbc84795992f57ed9b201928cd4ef0a17c8472
    [key |-> <<107, 50>>,
     data |-> <<87, 147, 251, 152, 84, 136, 86, 194, 89, 98, 143, 62, 129, 161, 8, 130, 140, 125, 206, 240, 181, 125, 236, 41, 44, 188, 115, 202, 74, 137, 95, 232, 109, 222, 89, 109, 169, 116, 72, 23, 6, 187, 176, 36, 242, 213, 196, 100, 85, 52, 237, 4, 28, 169, 184, 155, 247, 87, 182, 67, 151, 11, 19, 224, 88, 140, 246, 144, 52, 147, 118, 55, 152, 232, 17, 193, 59, 152, 72, 185, 23, 37, 18, 144, 236, 121, 203, 251, 5, 221, 127, 142, 32, 244, 99, 28>>,
     digest |-> <<129, 119, 129, 52, 221, 45, 97, 96, 139, 130, 82, 17, 91, 187, 200, 71, 149, 153, 47, 87, 237, 155, 32, 25, 40, 205, 78, 240, 161, 124, 132, 114>>],
    \* HMAC('k2', HMAC(POST) ++ HMAC(/a/b) ++ HMAC('')) = 64f657934000a6132689f63110db06972ccab7fa36b51545086d311268f0314e
    [key |-> <<107, 50>>,
     data |-> <<87, 147, 251, 152, 84, 136, 86, 194, 89, 98, 143, 62, 129, 161, 8, 130, 140, 125, 206, 240, 181, 125, 236, 41, 44, 188, 115, 202, 74, 137, 95, 232, 238, 161, 96, 145, 76, 23, 82, 80, 186, 73, 116, 223, 242, 20, 155, 65, 166, 8, 69, 22, 162, 25, 96, 206, 172, 86, 247, 1, 45, 143, 71, 236, 21, 141, 8, 6, 54, 219, 40, 195, 106, 219, 42, 188, 105, 148, 58, 176, 145, 235, 90, 36, 225, 66, 106, 97, 32, 218, 249, 112, 157, 138, 209, 125>>,
     digest |-> <<100, 246, 87, 147, 64, 0, 166, 19, 38, 137, 246, 49, 16, 219, 6, 151, 44, 202, 183, 250, 54, 181, 21, 69, 8, 109, 49, 18, 104, 240, 49, 78>>],
    \* HMAC('k2', HMAC(POST) ++ HMAC(/a/b) ++ HMAC('hi')) = 97a9453bc3705ffb0353791e639ce50bf6562e170566c4c33668d2f7d67258d8
    [key |-> <<107, 50>>,
     data |-> <<87, 147, 251, 152, 84, 136, 86, 194, 89, 98, 143, 62, 129, 161, 8, 130, 140, 125, 206, 240, 181, 125, 236, 41, 44, 188, 115, 202, 74, 137, 95, 232, 238, 161, 96, 145, 76, 23, 82, 80, 186, 73, 116, 223, 242, 20, 155, 65, 166, 8, 69, 22, 162, 25, 96, 206, 172, 86, 247, 1, 45, 143, 71, 236, 88, 140, 246, 144, 52, 147, 118, 55, 152, 232, 17, 193, 59, 152, 72, 185, 23, 37, 18, 144, 236, 121, 203, 251, 5, 221, 127, 142, 32, 244, 99, 28>>,
     digest |-> <<151, 169, 69, 59, 195, 112, 95, 251, 3, 83, 121, 30, 99, 156, 229, 11, 246, 86, 46, 23, 5, 102, 196, 195, 54, 104, 210, 247, 214, 114, 88, 216>>]
  >>

\* openssl::crypto::hmac: HMAC-SHA256 of data under key (32 bytes)
HmacSha256(key, data) ==
  LET hits == {i \in 1..Len(HmacSha256Table) :
                 /\ HmacSha256Table[i].key = key
                 /\ HmacSha256Table[i].data = data}
  IN  IF hits # {} THEN HmacSha256Table[CHOOSE i \in hits : TRUE].digest
      ELSE HmacSha256Compute[key, data]

\* openssl::crypto::hmac::hmac(Type::SHA256, key, data): one-shot
hmac(key, data) == HmacSha256(key, data)

\* HMAC::new(Type::SHA256, key): an incremental context
HMAC_new(key) == [key |-> key, data |-> <<>>]

\* Faulty variant of HMAC_write_all: each write starts the message over.
HMAC_write_all_restarts(ctx, bytes) == [ctx EXCEPT !.data = bytes]

\* impl Write for HMAC: write_all appends the bytes to the message
HMAC_write_all(ctx, bytes) == [ctx EXCEPT !.data = @ \o bytes]

\* HMAC::finish: the digest of everything written
HMAC_finish(ctx) == HmacSha256(ctx.key, ctx.data)

(***************************************************************************)
(* Hmac256 (lib.rs:61-91): a 32-byte array.                                *)
(***************************************************************************)
\* Hmac256::new copies bytes[0..32]; bytes[i] panics when bytes is shorter.
Hmac256_new(bytes) ==
  IF Len(bytes) < HmacLen THEN [panic |-> TRUE]
  ELSE [panic |-> FALSE, val |-> SubSeq(bytes, 1, HmacLen)]

Hmac256_compute(key, bytes) == Hmac256_new(hmac(key, bytes)).val

(***************************************************************************)
(* Hex codec.                                                              *)
(***************************************************************************)
\* "{:02x}": one lowercase hex digit, as its ASCII code
HexDigitLower(n) == IF n < 10 THEN 48 + n ELSE 87 + n

\* to_hex! (lib.rs:209-219): two lowercase hex digits per byte
to_hex(bytes) ==
  [i \in 1..(2 * Len(bytes)) |->
     IF i % 2 = 1 THEN HexDigitLower(bytes[(i + 1) \div 2] \div 16)
     ELSE HexDigitLower(bytes[i \div 2] % 16)]

\* rustc_serialize::hex::FromHex for str.  The loop over self.bytes() takes
\* hex digits of either case two by two into one byte each ("buf <<= 4" on
\* the u8 buf drops what the previous pair left), skips the whitespace bytes
\* ' ', '\r', '\n', '\t', returns InvalidHexCharacter at the first other
\* byte, and after the loop returns InvalidHexLength when a digit is left
\* over.
IsHexDigit(byte) ==
  \/ (byte >= 65 /\ byte <= 70)
  \/ (byte >= 97 /\ byte <= 102)
  \/ (byte >= 48 /\ byte <= 57)

IsHexSpace(byte) == byte \in {32, 13, 10, 9}

HexNibble(byte) ==
  IF byte >= 65 /\ byte <= 70 THEN byte - 65 + 10
  ELSE IF byte >= 97 /\ byte <= 102 THEN byte - 97 + 10
  ELSE byte - 48

from_hex(s) ==
  LET digits == SelectSeq(s, IsHexDigit)
  IN  IF \E i \in 1..Len(s) : ~IsHexDigit(s[i]) /\ ~IsHexSpace(s[i])
      THEN [ok |-> FALSE, err |-> "InvalidHexCharacter"]
      ELSE IF Len(digits) % 2 # 0
      THEN [ok |-> FALSE, err |-> "InvalidHexLength"]
      ELSE [ok |-> TRUE,
            val |-> [k \in 1..(Len(digits) \div 2) |->
                       ((HexNibble(digits[2 * k - 1]) * 16) % 256)
                         + HexNibble(digits[2 * k])]]

\* The length of the well-formed UTF-8 sequence that starts at v[i], 0 when
\* there is none (core::str::run_utf8_validation's cases).
Utf8CharLen(v, i) ==
  LET n == Len(v)
      first == v[i]
      Cont(j, lo, hi) == j <= n /\ v[j] >= lo /\ v[j] <= hi
  IN  IF first < 128 THEN 1
      ELSE IF first >= 194 /\ first <= 223
      THEN IF Cont(i + 1, 128, 191) THEN 2 ELSE 0
      ELSE IF first >= 224 /\ first <= 239
      THEN IF /\ Cont(i + 1,
                      IF first = 224 THEN 160 ELSE 128,
                      IF first = 237 THEN 159 ELSE 191)
              /\ Cont(i + 2, 128, 191)
           THEN 3 ELSE 0
      ELSE IF first >= 240 /\ first <= 244
      THEN IF /\ Cont(i + 1,
                      IF first = 240 THEN 144 ELSE 128,
                      IF first = 244 THEN 143 ELSE 191)
              /\ Cont(i + 2, 128, 191)
              /\ Cont(i + 3, 128, 191)
           THEN 4 ELSE 0
      ELSE 0

IsUtf8Cont(byte) == byte >= 128 /\ byte <= 191

\* std::str::from_utf8 succeeds when the bytes split into well-formed
\* sequences: every byte that is no continuation byte starts one, and every
\* continuation byte lies inside the one started by the nearest byte before
\* it that is no continuation byte.
from_utf8_ok(v) ==
  \A i \in 1..Len(v) :
    IF IsUtf8Cont(v[i])
    THEN \E j \in 1..(i - 1) :
           /\ i - j <= 3
           /\ ~IsUtf8Cont(v[j])
           /\ \A k \in (j + 1)..(i - 1) : IsUtf8Cont(v[k])
           /\ Utf8CharLen(v, j) > i - j
    ELSE Utf8CharLen(v, i) > 0

\* url::format::PathFormatter: "/" for an empty path, else "/" + segment
\* for every segment
RECURSIVE PathFormatter(_)
PathFormatter(path) ==
  IF path = <<>> THEN <<>>
  ELSE (<<47>> \o Head(path)) \o PathFormatter(Tail(path))

PathFormatter_to_string(path) ==
  IF path = <<>> THEN <<47>> ELSE PathFormatter(path)

(***************************************************************************)
(* IronResult values, and IronError::new(err, status).                     *)
(***************************************************************************)
Ok(v) == [kind |-> "Ok", val |-> v]
IronError_new(msg, status) == [kind |-> "Err", msg |-> msg, status |-> status]
\* a panic unwinds out of the middleware: no IronResult is returned
Panicked(why) == [kind |-> "Panic", msg |-> why]

\* Faulty variant of forbidden: the macro answers 401 instead of 403.
forbidden_as_unauthorized == IronError_new("Failed HMAC authentication", "Unauthorized")

\* forbidden! (lib.rs:131-136)
forbidden == IronError_new("Failed HMAC authentication", "Forbidden")

(***************************************************************************)
(* Hmac256Authentication::middleware (lib.rs:106-115): the before and the  *)
(* after middleware are two clones of one configuration.                   *)
(***************************************************************************)
Hmac256Authentication(secret, hmac_header_key) ==
  [secret |-> secret, hmac_header_key |-> hmac_header_key]

middleware(secret, hmac_header_key) ==
  LET auth == Hmac256Authentication(SecretKey_new(secret), hmac_header_key)
  IN  [before |-> auth, after |-> auth]

(***************************************************************************)
(* Headers: hyper's raw view, a map from header name to the list of raw    *)
(* values (Vec<Vec<u8>>).                                                  *)
(***************************************************************************)
NoHeaders == [n \in {} |-> <<>>]

\* Headers::get_raw
get_raw(headers, name) ==
  IF name \in DOMAIN headers THEN [some |-> TRUE, val |-> headers[name]]
  ELSE [some |-> FALSE]

\* Headers::set_raw: replaces whatever the name held
set_raw(headers, name, values) ==
  [n \in (DOMAIN headers) \cup {name} |->
     IF n = name THEN values ELSE headers[n]]

(***************************************************************************)
(* compute_request_hmac (lib.rs:152-184).  req.body is what                *)
(* req.get::<bodyparser::Raw>() returns: Ok(Some(body)), Ok(None) or Err.  *)
(***************************************************************************)
compute_request_hmac(self, req) ==
  IF req.body.kind = "Err" THEN forbidden
  ELSE
    LET body == IF req.body.kind = "Some" THEN req.body.val ELSE <<>>
        method == req.method
        path == PathFormatter_to_string(req.path)
        method_hmac == Hmac256_compute(self.secret, method)
        path_hmac == Hmac256_compute(self.secret, path)
        body_hmac == Hmac256_compute(self.secret, body)
        merged0 == HMAC_new(self.secret)
        merged1 == HMAC_write_all(merged0, method_hmac)
        merged2 == HMAC_write_all(merged1, path_hmac)
        merged3 == HMAC_write_all(merged2, body_hmac)
    IN  Ok(Hmac256_new(HMAC_finish(merged3)).val)

\* Faulty variant of eq: the comparison stops one byte early.
eq_skips_last_byte(a, b) ==
  IF Len(a) # Len(b) THEN [panic |-> TRUE]
  ELSE [panic |-> FALSE,
        val |-> Cardinality({i \in 1..(Len(a) - 1) : a[i] # b[i]}) = 0]

(***************************************************************************)
(* openssl::crypto::memcmp::eq: asserts equal lengths, then compares every *)
(* byte pair and reports whether none differs.                             *)
(***************************************************************************)
eq(a, b) ==
  IF Len(a) # Len(b) THEN [panic |-> TRUE]
  ELSE [panic |-> FALSE,
        val |-> Cardinality({i \in 1..Len(a) : a[i] # b[i]}) = 0]

(***************************************************************************)
(* BeforeMiddleware::before (lib.rs:227-262).  before_run follows the body *)
(* of the method and yields what it returns (result) together with what    *)
(* compute_request_hmac returned (computed) and the arguments of the one   *)
(* call of eq it makes (NotCompared when a return or a panic comes before  *)
(* that call).                                                             *)
(***************************************************************************)
NotCompared == [called |-> FALSE]
Compared(a, b) == [called |-> TRUE, a |-> a, b |-> b]

\* the body of before from `let supplied = ...` on, computed being the
\* digest compute_request_hmac returned
before_supplied(self, req, computed) ==
  LET early(r) == [computed |-> Ok(computed), result |-> r, compared |-> NotCompared]
      raw == get_raw(req.headers, self.hmac_header_key)
  IN
  IF ~raw.some THEN early(forbidden)
  ELSE IF Len(raw.val) = 0 THEN early(Panicked("index out of bounds"))
  ELSE
    LET s == raw.val[1]
    IN
    IF ~from_utf8_ok(s) THEN early(Panicked("unwrap on Utf8Error"))
    ELSE IF Len(s) # HexHmacLen
    THEN early(IronError_new("Incorrect HMAC length", "BadRequest"))
    ELSE
      LET hex == from_hex(s)
      IN
      IF ~hex.ok THEN early(forbidden)
      ELSE
        LET supplied == hex.val
        IN
        IF Len(computed) # Len(supplied) THEN early(forbidden)
        ELSE
          LET same == eq(computed, supplied)
          IN  [computed |-> Ok(computed),
               result |-> IF same.panic THEN Panicked("assertion failed")
                          ELSE IF same.val THEN Ok(<<>>)
                          ELSE forbidden,
               compared |-> Compared(computed, supplied)]

\* `let computed = try!(self.compute_request_hmac(req));` and the rest
before_tried(self, req, tried) ==
  IF tried.kind # "Ok"
  THEN [computed |-> tried, result |-> tried, compared |-> NotCompared]
  ELSE before_supplied(self, req, tried.val)

before_run(self, req) == before_tried(self, req, compute_request_hmac(self, req))

before(self, req) == before_run(self, req).result

(***************************************************************************)
(* Buffer (lib.rs:264-296): a Vec<u8> that implements io::Write.           *)
(***************************************************************************)
Buffer_new == <<>>

\* Buffer::write reserves room for buf and then, for each byte of buf,
\* takes self.0.get_unchecked_mut(len) with len = self.0.len(): an index
\* outside the slice, which is undefined behaviour.  What a build does
\* with it: "Written", the byte lands in the reserved room and set_len
\* makes it part of the Vec (no debug assertions); "Abort", the
\* precondition check of get_unchecked_mut aborts the process (debug
\* assertions).  An empty buf never reaches the unsafe block.
UnsafeOutcomes == {"Written", "Abort"}

Written(vec) == [aborted |-> FALSE, vec |-> vec]
Aborted == [aborted |-> TRUE]

Buffer_write(self, buf, ub) ==
  IF Len(buf) = 0 THEN Written(self)
  ELSE IF ub = "Abort" THEN Aborted
  ELSE Written([i \in 1..(Len(self) + Len(buf)) |->
                  IF i <= Len(self) THEN self[i] ELSE buf[i - Len(self)]])

(***************************************************************************)
(* Response bodies (iron::response::WriteBody).  An in-memory body (String,*)
(* Vec<u8>) writes its bytes and keeps them; a reader body (Box<Read>)     *)
(* writes what it reads, chunk by chunk, and is drained by that.           *)
(***************************************************************************)
BodyBytes(b) == [kind |-> "Bytes", bytes |-> b]
BodyReader(chunks) == [kind |-> "Reader", chunks |-> chunks]

\* the chunks written one after the other into the buffer w holds
RECURSIVE WriteChunks(_, _, _)
WriteChunks(w, chunks, ub) ==
  IF w.aborted \/ chunks = <<>> THEN w
  ELSE WriteChunks(Buffer_write(w.vec, Head(chunks), ub), Tail(chunks), ub)

\* WriteBody::write_body(&mut self, res): the body after the call, and the
\* sink after the call
write_body(body, buf, ub) ==
  IF body.kind = "Bytes"
  THEN [body |-> body, buf |-> Buffer_write(buf, body.bytes, ub)]
  ELSE [body |-> BodyReader(<<>>), buf |-> WriteChunks(Written(buf), body.chunks, ub)]

\* The bytes a body puts on the wire when the response is sent.
WireBytes(optBody) ==
  IF ~optBody.some THEN <<>>
  ELSE IF optBody.val.kind = "Bytes" THEN optBody.val.bytes
  ELSE Flatten(optBody.val.chunks)

None == [some |-> FALSE]
Some(v) == [some |-> TRUE, val |-> v]

\* Faulty variant of compute_response_hmac: the body is not reset after it was
\* written into the buffer.
compute_response_hmac_no_reset(self, res, ub) ==
  LET written == IF res.body.some
                 THEN write_body(res.body.val, Buffer_new, ub)
                 ELSE [body |-> BodyBytes(<<>>), buf |-> Written(<<>>)]
  IN  IF written.buf.aborted THEN Aborted
      ELSE [aborted |-> FALSE,
            hmac |-> hmac(self.secret, written.buf.vec),
            res |-> IF res.body.some
                    THEN [res EXCEPT !.body = Some(written.body)]
                    ELSE res]

(***************************************************************************)
(* compute_response_hmac (lib.rs:186-207): the digest, and the response    *)
(* with its body reset to the buffered bytes.                              *)
(***************************************************************************)
compute_response_hmac(self, res, ub) ==
  LET buf == IF res.body.some
             THEN write_body(res.body.val, Buffer_new, ub).buf
             ELSE Written(<<>>)
  IN  IF buf.aborted THEN Aborted
      ELSE [aborted |-> FALSE,
            hmac |-> hmac(self.secret, buf.vec),
            res |-> [res EXCEPT !.body = Some(BodyBytes(buf.vec))]]

(***************************************************************************)
(* AfterMiddleware::after (lib.rs:298-305).                                *)
(***************************************************************************)
\* the process was aborted inside the call: nothing is returned
ProcessAborted == [kind |-> "Abort"]

after(self, req, res, ub) ==
  LET r == compute_response_hmac(self, res, ub)
  IN  IF r.aborted THEN ProcessAborted
      ELSE LET hmac_hex_encoded == to_hex(r.hmac)
           IN  Ok([r.res EXCEPT
                     !.headers = set_raw(@, self.hmac_header_key, <<hmac_hex_encoded>>)])
(***************************************************************************)
(* The environment: the requests a client sends and the responses the      *)
(* application handler builds.                                             *)
(***************************************************************************)
\* What bodyparser::Raw yields for a request.
BodyReads ==
  { [kind |-> "None"],
    [kind |-> "Some", val |-> BodyHi],
    [kind |-> "Some", val |-> <<>>],
    [kind |-> "Err"] }

\* The signature a client holding the secret sends (README / lib.rs:95-97):
\* lowercase hex of hmac(secret, hmac(secret, method) + hmac(secret, path)
\* + hmac(secret, body)).
ClientDigest(secret, method, path, body) ==
  hmac(secret, hmac(secret, method) \o hmac(secret, path) \o hmac(secret, body))

UpperHex(s) == [i \in 1..Len(s) |-> IF s[i] >= 97 /\ s[i] <= 102 THEN s[i] - 32 ELSE s[i]]

\* s with its i-th character replaced by c
WithChar(s, i, c) == [s EXCEPT ![i] = c]

\* another lowercase hex digit than c
OtherHexDigit(c) == IF c = 48 THEN 49 ELSE 48

\* The raw header values a client may send where `good` is the right one.
HeaderValues(secret, good) ==
  { good,
    UpperHex(good),
    WithChar(good, 1, OtherHexDigit(good[1])),
    WithChar(good, HexHmacLen, OtherHexDigit(good[HexHmacLen])),
    to_hex(hmac(secret, MethodGet)),
    <<49, 50, 51>>,
    <<>>,
    good \o <<48, 48>>,
    WithChar(good, HexHmacLen, 103),
    WithChar(good, HexHmacLen, 32),
    WithChar(WithChar(good, 1, 32), 2, 32),
    <<255>>,
    WithChar(good, 1, 255),
    <<195, 169>> \o SubSeq(good, 1, HexHmacLen - 2) }

HeaderCollections(key, secret, good) ==
  LET other == CHOOSE k \in HeaderKeys : k # key
      One(k, vals) == [n \in {k} |-> vals]
  IN  {NoHeaders, One(other, <<good>>)}
        \cup {One(key, <<v>>) : v \in HeaderValues(secret, good)}
        \cup {One(key, <<good, <<49, 50, 51>> >>), One(key, << <<49, 50, 51>>, good>>)}

Request(method, path, body, headers) ==
  [method |-> method, path |-> path, body |-> body, headers |-> headers]

NoRequest == [method |-> <<>>, path |-> <<>>, body |-> [kind |-> "None"], headers |-> NoHeaders]

\* Response::with((status, body)) and friends: what a handler may return
HandlerBodies ==
  { None,
    Some(BodyBytes(HelloWorld)),
    Some(BodyBytes(<<>>)),
    Some(BodyReader(<< SubSeq(HelloWorld, 1, 7), SubSeq(HelloWorld, 8, 13) >>)),
    Some(BodyReader(<< BodyOk >>)) }

Response(status, headers, body) ==
  [status |-> status, headers |-> headers, body |-> body]

NoResponse == Response("none", NoHeaders, None)

(***************************************************************************)
(* State.                                                                  *)
(***************************************************************************)
VARIABLES
  auth,        \* the (before, after) pair Hmac256Authentication::middleware built
  curReq,      \* the request in the chain
  phase,       \* where the chain is with it
  computed,    \* what compute_request_hmac returned inside before
  result,      \* what before returned for it
  compared,    \* the arguments of the call of eq inside before, if it was made
  curRes,      \* the response in the chain
  handlerRan,  \* whether the application handler ran for it
  produced,    \* the body of the response the handler returned, as returned
  served       \* requests received so far

vars == <<auth, curReq, phase, computed, result, compared, curRes, handlerRan, produced, served>>

NoResult == [kind |-> "None"]

Init ==
  /\ \E secret \in Secrets, key \in HeaderKeys : auth = middleware(secret, key)
  /\ curReq = NoRequest
  /\ phase = "idle"
  /\ computed = NoResult
  /\ result = NoResult
  /\ compared = NotCompared
  /\ curRes = NoResponse
  /\ handlerRan = FALSE
  /\ produced = None
  /\ served = 0

(***************************************************************************)
(* The chain of tests/lib.rs:35-55 under iron::Chain: the before           *)
(* middleware, then the handler, then the after middleware.  An Err from   *)
(* before or from the handler skips what is left of the normal path:       *)
(* the after middleware sees it in `catch` (not overridden: the error is   *)
(* handed on) and Iron sends the error's response.                         *)
(***************************************************************************)
\* the phases in which the chain is done with a request
Terminal == {"idle", "responded", "refused", "aborted"}

\* hyper hands a parsed request to the chain
Receive ==
  /\ phase \in Terminal
  /\ served < MaxRequests
  /\ \E method \in Methods, path \in UrlPaths, body \in BodyReads :
       LET sent == IF body.kind = "Some" THEN body.val ELSE <<>>
           good == to_hex(ClientDigest(auth.before.secret, method,
                                       PathFormatter_to_string(path), sent))
       IN  \E headers \in HeaderCollections(auth.before.hmac_header_key,
                                            auth.before.secret, good) :
             curReq' = Request(method, path, body, headers)
  /\ phase' = "received"
  /\ computed' = NoResult
  /\ result' = NoResult
  /\ compared' = NotCompared
  /\ curRes' = NoResponse
  /\ handlerRan' = FALSE
  /\ produced' = None
  /\ served' = served + 1
  /\ UNCHANGED auth

\* Chain::continue_from_before: hmac_before.before(req)
Before ==
  /\ phase = "received"
  /\ \E run \in {before_run(auth.before, curReq)} :
       /\ computed' = run.computed
       /\ result' = run.result
       /\ compared' = run.compared
  /\ phase' = CASE result'.kind = "Ok" -> "allowed"
                [] result'.kind = "Err" -> "rejected"
                [] OTHER -> "panicked"
  /\ UNCHANGED <<auth, curReq, curRes, handlerRan, produced, served>>

\* Chain::continue_from_handler: the handler runs and returns Ok(response)
HandlerOk ==
  /\ phase = "allowed"
  /\ \E body \in HandlerBodies,
        headers \in {NoHeaders, [n \in {auth.after.hmac_header_key} |-> << <<115>> >>]} :
       /\ curRes' = Response("Ok", headers, body)
       /\ produced' = body
  /\ handlerRan' = TRUE
  /\ phase' = "handled"
  /\ UNCHANGED <<auth, curReq, computed, result, compared, served>>

\* Chain::continue_from_handler: the handler runs and returns Err(error)
HandlerErr ==
  /\ phase = "allowed"
  /\ curRes' = Response("InternalServerError", NoHeaders, None)
  /\ handlerRan' = TRUE
  /\ phase' = "failed"
  /\ UNCHANGED <<auth, curReq, computed, result, compared, produced, served>>

\* Chain::continue_from_after: hmac_after.after(req, res), then the
\* response is sent; when the process is aborted inside after, nothing is
\* sent and the server is gone
After ==
  /\ phase = "handled"
  /\ \E ub \in UnsafeOutcomes :
       \E returned \in {after(auth.after, curReq, curRes, ub)} :
         IF returned.kind = "Ok"
         THEN curRes' = returned.val /\ phase' = "responded"
         ELSE curRes' = NoResponse /\ phase' = "crashed"
  /\ UNCHANGED <<auth, curReq, computed, result, compared, handlerRan, produced, served>>

\* Chain::fail_from_before / fail_from_handler: AfterMiddleware::catch
\* (the default) hands the error on, and Iron sends the error's response
Catch ==
  /\ phase \in {"rejected", "failed"}
  /\ curRes' = IF phase = "rejected"
               THEN Response(result.status, NoHeaders, None)
               ELSE curRes
  /\ phase' = "refused"
  /\ UNCHANGED <<auth, curReq, computed, result, compared, handlerRan, produced, served>>

\* A panic in before unwinds the worker thread: the connection is dropped
\* and no response is sent
Unwind ==
  /\ phase = "panicked"
  /\ phase' = "aborted"
  /\ UNCHANGED <<auth, curReq, computed, result, compared, curRes, handlerRan, produced, served>>

Next ==
  \/ Receive
  \/ Before
  \/ HandlerOk
  \/ HandlerErr
  \/ After
  \/ Catch
  \/ Unwind

Spec == Init /\ [][Next]_vars

(***************************************************************************)
(* Vocabulary of the properties.                                           *)
(***************************************************************************)
\* before has acted on the current request
BeforeActed == phase \notin {"idle", "received"}

\* before returned an IronResult for the current request
BeforeReturned == BeforeActed /\ result.kind \in {"Ok", "Err"}

ConfiguredKey == auth.before.hmac_header_key

HeaderPresent == ConfiguredKey \in DOMAIN curReq.headers

\* the value of the configured header (the first raw value it carries)
HeaderValue == curReq.headers[ConfiguredKey][1]

BodyReadFailed == curReq.body.kind = "Err"

RequestBody == IF curReq.body.kind = "Some" THEN curReq.body.val ELSE <<>>

\* HMAC(secret, HMAC(secret, method) || HMAC(secret, path) || HMAC(secret, body)),
\* one keyed digest over the explicit concatenation
ExpectedDigest ==
  LET k == auth.before.secret
  IN  hmac(k, hmac(k, curReq.method)
                \o hmac(k, PathFormatter_to_string(curReq.path))
                \o hmac(k, RequestBody))

\* the value of a hex character, 16 for any other byte
HexValue(c) ==
  IF c >= 48 /\ c <= 57 THEN c - 48
  ELSE IF c >= 97 /\ c <= 102 THEN c - 87
  ELSE IF c >= 65 /\ c <= 70 THEN c - 55
  ELSE 16

\* v is 64 hex characters
IsHex64(v) == Len(v) = 64 /\ \A i \in 1..Len(v) : HexValue(v[i]) < 16

\* v is 64 lowercase hex characters
IsLowerHex64(v) ==
  Len(v) = 64 /\ \A i \in 1..Len(v) : (v[i] >= 48 /\ v[i] <= 57) \/ (v[i] >= 97 /\ v[i] <= 102)

\* the hex string v spells the bytes d
Spells(v, d) ==
  /\ Len(v) = 2 * Len(d)
  /\ \A k \in 1..Len(d) : HexValue(v[2 * k - 1]) * 16 + HexValue(v[2 * k]) = d[k]

\* the number of positions at which two strings of one length differ
Differences(v, w) == Cardinality({i \in 1..Len(v) : v[i] # w[i]})

\* after has acted on the response of the current request
AfterActed == phase \in {"responded", "crashed"}

RejectedAs(status) == result.kind = "Err" /\ result.status = status

\* "fa64feb9...a7be", the request signature of tests/lib.rs:106
TestRequestHmac ==
  <<102, 97, 54, 52, 102, 101, 98, 57, 52, 102, 49, 100, 54, 52, 57, 100,
    52, 51, 53, 97, 101, 54, 100, 99, 101, 48, 48, 57, 102, 102, 48, 55,
    54, 55, 102, 53, 55, 99, 48, 102, 50, 48, 56, 54, 55, 100, 100, 101,
    53, 102, 56, 102, 54, 55, 49, 50, 102, 101, 97, 51, 97, 55, 98, 101>>

\* "ccc7dfe2...71a0", the response signature of tests/lib.rs:104
TestResponseHmac ==
  <<99, 99, 99, 55, 100, 102, 101, 50, 52, 100, 101, 48, 51, 55, 53, 99,
    99, 52, 57, 48, 54, 55, 53, 55, 54, 98, 54, 57, 98, 97, 52, 100,
    54, 56, 98, 101, 53, 53, 52, 99, 57, 102, 56, 54, 102, 98, 51, 100,
    97, 100, 102, 99, 48, 53, 51, 99, 101, 56, 52, 102, 55, 49, 97, 48>>

(***************************************************************************)
(* C1.  before returns Ok (the request is allowed) if and only if the      *)
(* request body was read, the configured header is present and its value   *)
(* is 64 hex characters that spell the 32 bytes of the expected request    *)
(* digest; a value of 64 hex characters that spells another digest is      *)
(* rejected with status Forbidden.                                         *)
(***************************************************************************)
C1_AllowedIffDigestMatches ==
  BeforeActed =>
    /\ (result.kind = "Ok") <=>
         /\ ~BodyReadFailed
         /\ HeaderPresent
         /\ IsHex64(HeaderValue)
         /\ Spells(HeaderValue, ExpectedDigest)
    /\ (/\ ~BodyReadFailed
        /\ HeaderPresent
        /\ IsHex64(HeaderValue)
        /\ ~Spells(HeaderValue, ExpectedDigest)) => RejectedAs("Forbidden")

\* a signature that differs from the right one in one hex character was
\* rejected as Forbidden
C1_Witness ==
  /\ phase = "rejected"
  /\ HeaderPresent
  /\ IsHex64(HeaderValue)
  /\ Differences(HeaderValue, to_hex(ExpectedDigest)) = 1
  /\ RejectedAs("Forbidden")

(***************************************************************************)
(* C2.  The digest compute_request_hmac returns is one HMAC over the       *)
(* concatenation HMAC(secret, method) || HMAC(secret, path) ||             *)
(* HMAC(secret, body), with an absent body hashed as the empty byte        *)
(* sequence.                                                               *)
(***************************************************************************)
C2_RequestDigestIsNestedHmac ==
  (BeforeActed /\ ~BodyReadFailed) =>
    /\ computed.kind = "Ok"
    /\ computed.val = ExpectedDigest
    /\ Len(computed.val) = 32

\* GET / with no body under the secret "rust :)": the digest of the tests
C2_Witness ==
  /\ BeforeActed
  /\ curReq.body.kind = "None"
  /\ curReq.method = MethodGet
  /\ computed.kind = "Ok"
  /\ Spells(TestRequestHmac, computed.val)

(***************************************************************************)
(* C3.  A request that does not carry the configured header is rejected    *)
(* with status Forbidden, whatever its method, path and body: the handler  *)
(* does not run and the response sent has status Forbidden.                *)
(***************************************************************************)
C3_MissingHeaderForbidden ==
  (BeforeActed /\ ~HeaderPresent) =>
    /\ RejectedAs("Forbidden")
    /\ ~handlerRan
    /\ phase \in {"rejected", "refused"}
    /\ phase = "refused" => curRes.status = "Forbidden"

\* a request with a readable body and no signature header was answered
C3_Witness ==
  /\ phase = "refused"
  /\ ~HeaderPresent
  /\ ~BodyReadFailed
  /\ DOMAIN curReq.headers # {}
  /\ curRes.status = "Forbidden"

(***************************************************************************)
(* C4.  A request whose signature header is present but does not have      *)
(* exactly 64 characters is answered with status Forbidden.                *)
(***************************************************************************)
C4_WrongLengthAnsweredForbidden ==
  (phase = "refused" /\ HeaderPresent /\ Len(HeaderValue) # 64) =>
    curRes.status = "Forbidden"

(***************************************************************************)
(* C5.  Every header value that is present but is not 64 hex characters    *)
(* is rejected with status BadRequest, whether its length is not 64 or it  *)
(* has 64 characters some of which are no hex digits, and that outcome is  *)
(* not the one of a failed authentication.                                 *)
(***************************************************************************)
C5_MalformedAlwaysBadRequest ==
  (BeforeReturned /\ ~BodyReadFailed /\ HeaderPresent /\ ~IsHex64(HeaderValue)) =>
    /\ RejectedAs("BadRequest")
    /\ result # forbidden

(***************************************************************************)
(* C6.  Every response that reached after carries, once after has acted,   *)
(* the configured header (the name before reads) with a single value: 64   *)
(* lowercase hex characters that spell HMAC(secret, body bytes), the body  *)
(* bytes being those of the handler's response, none when it has no body.  *)
(***************************************************************************)
C6_ResponseSigned ==
  AfterActed =>
    /\ auth.after.hmac_header_key = auth.before.hmac_header_key
    /\ ConfiguredKey \in DOMAIN curRes.headers
    /\ Len(curRes.headers[ConfiguredKey]) = 1
    /\ IsLowerHex64(curRes.headers[ConfiguredKey][1])
    /\ Spells(curRes.headers[ConfiguredKey][1],
              hmac(auth.after.secret, WireBytes(produced)))

(***************************************************************************)
(* C7.  Signing leaves the body unchanged: the body the signed response    *)
(* carries is byte for byte the body the handler returned, and the         *)
(* signature is over those bytes.                                          *)
(***************************************************************************)
C7_BodyPreserved ==
  phase = "responded" =>
    /\ curRes.body.some
    /\ WireBytes(curRes.body) = WireBytes(produced)
    /\ curRes.headers[auth.after.hmac_header_key][1]
         = to_hex(hmac(auth.after.secret, WireBytes(curRes.body)))

\* a body the handler returned as a reader of two chunks was signed and is
\* carried whole
C7_Witness ==
  /\ phase = "responded"
  /\ produced.some
  /\ produced.val.kind = "Reader"
  /\ Len(produced.val.chunks) = 2
  /\ WireBytes(curRes.body) = HelloWorld

(***************************************************************************)
(* C8.  Every request before has acted on has one outcome, Ok (allowed)    *)
(* or Err (rejected); the handler runs only for an allowed request, and a  *)
(* rejected request never has the handler run nor the digest header in     *)
(* its response.                                                           *)
(***************************************************************************)
C8_OneOutcomeGatesHandler ==
  /\ BeforeActed => result.kind \in {"Ok", "Err"}
  /\ handlerRan => result.kind = "Ok"
  /\ (BeforeActed /\ result.kind # "Ok") =>
       /\ ~handlerRan
       /\ ConfiguredKey \notin DOMAIN curRes.headers

(***************************************************************************)
(* C9.  When reading the request body fails, before reports status         *)
(* InternalServerError, not the outcome of a failed or missing signature,  *)
(* and no digest is computed.                                              *)
(***************************************************************************)
C9_BodyReadErrorIsDistinct ==
  (BeforeActed /\ BodyReadFailed) =>
    /\ RejectedAs("InternalServerError")
    /\ result # forbidden
    /\ computed.kind # "Ok"

(***************************************************************************)
(* C10.  Whatever bytes the signature header carries, valid UTF-8 or not,  *)
(* before returns an outcome, Ok or Err: nothing escapes as a panic.       *)
(***************************************************************************)
C10_BeforeAlwaysReturns ==
  (BeforeActed /\ HeaderPresent) => result.kind \in {"Ok", "Err"}


(***************************************************************************)
(* C11.  Only lowercase hex is accepted on input: a request whose header   *)
(* value is not 64 lowercase hex characters, the uppercase spelling of     *)
(* the right request digest included, is not allowed by before.            *)
(***************************************************************************)
C11_OnlyLowercaseHexAllowed ==
  (BeforeActed /\ HeaderPresent /\ ~IsLowerHex64(HeaderValue)) =>
    result.kind # "Ok"

\* the header value decodes as hex, to the bytes DecodedHeader
HeaderDecodes ==
  /\ HeaderPresent
  /\ from_utf8_ok(HeaderValue)
  /\ from_hex(HeaderValue).ok

DecodedHeader == from_hex(HeaderValue).val

(***************************************************************************)
(* C12.  eq is called only with two byte sequences of 32 bytes each, and   *)
(* a header value that decodes to a number of bytes other than 32 is       *)
(* rejected with status BadRequest (MalformedHeader) without a call of     *)
(* eq.                                                                     *)
(***************************************************************************)
C12_ComparatorOnlyOnEqualLengths ==
  /\ compared.called => (Len(compared.a) = HmacLen /\ Len(compared.b) = HmacLen)
  /\ (BeforeReturned /\ ~BodyReadFailed /\ HeaderDecodes
        /\ Len(DecodedHeader) # HmacLen) =>
       /\ ~compared.called
       /\ RejectedAs("BadRequest")
=============================================================================
